---- MODULE Spec2Model ----
(***************************************************************************)
(* YARA syntax highlighter for CodeMirror (src/yaraLanguage.ts).           *)
(*                                                                         *)
(* A document is a sequence of one-character strings.  Positions are the   *)
(* 0-based offsets of the code: the character at offset p is text[p + 1],  *)
(* and a range [start, end) covers offsets start .. end - 1.               *)
(*                                                                         *)
(* Every regular expression of highlightYara is modelled by an operator    *)
(* that gives, for an offset p, the end of the match the JavaScript engine *)
(* finds when it tries the expression at p (greedy and lazy quantifiers    *)
(* and backtracking included), or NoMatch.  exec's global scan, the pool   *)
(* of matches, the stable sort, the overlap filter and the RangeSetBuilder *)
(* loop follow the code statement by statement.                            *)
(***************************************************************************)
EXTENDS Integers, Sequences, FiniteSets, TLC

VARIABLES
    doc,          \* view.state.doc, the full document text
    decorations,  \* the plugin's published DecorationSet, as a list of spans
    viewport,     \* the visible region of the view
    hasFocus,     \* view state that is neither the document nor the viewport
    crashed       \* TRUE once a scan raised (RangeSetBuilder.add threw)

vars == <<doc, decorations, viewport, hasFocus, crashed>>

(***************************************************************************)
(* Bounds of the model.                                                    *)
(***************************************************************************)
\* Longest text of the exhaustive scan specification.
MaxLen == 4
\* Longest document the editing specification types into.
MaxDocLen == 4

\* Characters of the exhaustively enumerated texts.
ScanChars == {"/", "*", "\"", "\\", "\n", "1", "?", ".", "f"}
\* Characters typed in the editing specification.
EditChars == {"/", "*", "1", "\n"}
\* The visible regions told apart.
Viewports == {"top", "bottom"}

(***************************************************************************)
(* Character classes of the JavaScript regular expressions.                *)
(***************************************************************************)
Digit == {"0", "1", "2", "3", "4", "5", "6", "7", "8", "9"}

LowerLetter ==
    {"a", "b", "c", "d", "e", "f", "g", "h", "i", "j", "k", "l", "m",
     "n", "o", "p", "q", "r", "s", "t", "u", "v", "w", "x", "y", "z"}

UpperLetter ==
    {"A", "B", "C", "D", "E", "F", "G", "H", "I", "J", "K", "L", "M",
     "N", "O", "P", "Q", "R", "S", "T", "U", "V", "W", "X", "Y", "Z"}

\* \w
WordChar == LowerLetter \cup UpperLetter \cup Digit \cup {"_"}
\* [a-zA-Z_]
IdentStart == LowerLetter \cup UpperLetter \cup {"_"}
\* [a-fA-F\d]
HexDigit == {"a", "b", "c", "d", "e", "f", "A", "B", "C", "D", "E", "F"} \cup Digit
\* [a-fA-F\d?]
HexWild == HexDigit \cup {"?"}
\* [.\w]
DotWord == WordChar \cup {"."}
\* \s
Whitespace == {" ", "\t", "\n", "\r", "\f"}
\* the characters "." does not match, and at which "$" and "^" match under /m
LineTerminator == {"\n", "\r"}
\* [-+\/*=<>:]
\* A variant of the operator class without the colon.
OperatorCharWithoutColon == {"-", "+", "/", "*", "=", "<", ">"}

OperatorChar == {"-", "+", "/", "*", "=", "<", ">", ":"}

(***************************************************************************)
(* Decoration classes.                                                     *)
(***************************************************************************)
keywordDecoration == "cm-keyword"
stringDecoration == "cm-string"
commentDecoration == "cm-comment"
numberDecoration == "cm-number"
metaDecoration == "cm-meta"
variableDecoration == "cm-variableName"
ruleNameDecoration == "cm-def"
operatorDecoration == "cm-operator"
atomDecoration == "cm-atom"

(***************************************************************************)
(* Helpers of the regular-expression engine.                               *)
(***************************************************************************)
\* exec returned null: the expression does not match at the offset.
NoMatch == -1

\* F applied to the value of v, which is computed once.
With(v, F(_)) == CHOOSE r \in {F(x) : x \in {v}} : TRUE

\* The text has the literal w at offset p.
StartsWith(text, p, w) ==
    /\ p + Len(w) <= Len(text)
    /\ \A i \in 1..Len(w) : text[p + i] = w[i]

\* The character at offset p exists and is in cls.
InClassAt(text, p, cls) ==
    /\ p >= 0
    /\ p < Len(text)
    /\ text[p + 1] \in cls

\* \b at offset p: exactly one of the characters before and at p is a word
\* character.
WordBoundary(text, p) ==
    InClassAt(text, p - 1, WordChar) # InClassAt(text, p, WordChar)

\* The end of the longest run of characters of cls that starts at p (a greedy
\* cls* ).
RECURSIVE RunEnd(_, _, _)
RunEnd(text, p, cls) ==
    IF p < Len(text) /\ text[p + 1] \in cls
    THEN RunEnd(text, p + 1, cls)
    ELSE p

\* The end of a greedy .* from p: the next line terminator, or the end of the
\* text.
RECURSIVE LineEnd(_, _)
LineEnd(text, p) ==
    IF p < Len(text) /\ text[p + 1] \notin LineTerminator
    THEN LineEnd(text, p + 1)
    ELSE p

(***************************************************************************)
(* The regular expressions, tried at one offset.                           *)
(***************************************************************************)
\* The lazy [\s\S]*? followed by \*\/ : the nearest "*/" at or after q.
RECURSIVE BlockCommentClose(_, _)
BlockCommentClose(text, q) ==
    IF q + 2 > Len(text) THEN NoMatch
    ELSE IF text[q + 1] = "*" /\ text[q + 2] = "/" THEN q + 2
    ELSE BlockCommentClose(text, q + 1)

\* /\/\*[\s\S]*?\*\//g
multiCommentRegex(text, p) ==
    IF StartsWith(text, p, <<"/", "*">>)
    THEN BlockCommentClose(text, p + 2)
    ELSE NoMatch

\* /\/\/.*$/gm
singleCommentRegex(text, p) ==
    IF StartsWith(text, p, <<"/", "/">>)
    THEN LineEnd(text, p + 2)
    ELSE NoMatch

\* The lazy body of a string from offset q: at each step the closing
\* alternative (a quote, or $ which without the m flag is the end of the
\* text) is tried first, then one more [^\\"] or \\. (the dot matches no line
\* terminator).  The alternatives exclude each other, so there is nothing to
\* backtrack to.
RECURSIVE StringBody(_, _)
StringBody(text, q) ==
    IF q = Len(text) THEN q
    ELSE IF text[q + 1] = "\"" THEN q + 1
    ELSE IF text[q + 1] # "\\" THEN StringBody(text, q + 1)
    ELSE IF q + 1 < Len(text) /\ text[q + 2] \notin LineTerminator
         THEN StringBody(text, q + 2)
    ELSE NoMatch

\* /"(?:[^\\"]|\\.)*?(?:"|$)/g
stringRegex(text, p) ==
    IF StartsWith(text, p, <<"\"">>)
    THEN StringBody(text, p + 1)
    ELSE NoMatch

\* \w{0,127}: the most word characters the rule name takes after its first.
RuleNameRest == 127

\* /\b(rule)(\s+)([a-zA-Z_]\w{0,127})\s*\{/g : the ends of group 1, group 2,
\* group 3 and of the whole match, or the empty tuple.  \s+ must take the whole
\* whitespace run (the name starts at a non-space), and the name must be the
\* whole word run (what follows it is whitespace or the brace).
ruleDeclarationRegex(text, p) ==
    LET kwEnd == p + 4
        wsEnd == RunEnd(text, kwEnd, Whitespace)
        idEnd == RunEnd(text, wsEnd, WordChar)
        spEnd == RunEnd(text, idEnd, Whitespace)
    IN  IF /\ WordBoundary(text, p)
           /\ StartsWith(text, p, <<"r", "u", "l", "e">>)
           /\ wsEnd > kwEnd
           /\ InClassAt(text, wsEnd, IdentStart)
           /\ idEnd - wsEnd <= 1 + RuleNameRest
           /\ InClassAt(text, spEnd, {"{"})
        THEN <<kwEnd, wsEnd, idEnd, spEnd + 1>>
        ELSE <<>>

\* /\$\w*/g
variableRegex(text, p) ==
    IF StartsWith(text, p, <<"$">>)
    THEN RunEnd(text, p + 1, WordChar)
    ELSE NoMatch

\* /^#.*$/gm
metaRegex(text, p) ==
    IF /\ p = 0 \/ InClassAt(text, p - 1, LineTerminator)
       /\ StartsWith(text, p, <<"#">>)
    THEN LineEnd(text, p + 1)
    ELSE NoMatch

\* /\b0x[a-fA-F\d]+\b/g : the hex digits must run up to a non-word character
\* (a shorter run ends before a hex digit, where \b fails).
hexNumberRegex(text, p) ==
    LET e == RunEnd(text, p + 2, HexDigit)
    IN  IF /\ WordBoundary(text, p)
           /\ StartsWith(text, p, <<"0", "x">>)
           /\ e > p + 2
           /\ ~InClassAt(text, e, WordChar)
        THEN e
        ELSE NoMatch

\* /\b(?:\.\d+|\d+\.?\d*)\b/g
\* First alternative: a dot right after a word character, digits, then a
\* non-word character.  Second alternative, in the engine's order: all the
\* digits, the dot, all the digits after it; then fewer digits after the dot
\* (only none of them leaves a \b, between the dot and a word character);
\* then without the dot.
decimalRegex(text, p) ==
    LET d1 == RunEnd(text, p, Digit)
        d2 == RunEnd(text, d1 + 1, Digit)
        f1 == RunEnd(text, p + 1, Digit)
    IN  IF ~WordBoundary(text, p) THEN NoMatch
        ELSE IF InClassAt(text, p, {"."})
        THEN IF f1 > p + 1 /\ ~InClassAt(text, f1, WordChar) THEN f1
             ELSE NoMatch
        ELSE IF d1 = p THEN NoMatch
        ELSE IF InClassAt(text, d1, {"."})
        THEN IF d2 > d1 + 1 /\ ~InClassAt(text, d2, WordChar) THEN d2
             ELSE IF InClassAt(text, d1 + 1, WordChar) THEN d1 + 1
             ELSE d1
        ELSE IF ~InClassAt(text, d1, WordChar) THEN d1
        ELSE NoMatch

\* /(?<![.\w])([a-fA-F\d?]{2})+(?![.\w])/g : the most pairs whose end is not
\* followed by a dot or a word character.
hexPatternRegex(text, p) ==
    LET run == RunEnd(text, p, HexWild) - p
        ks == {k \in 1..(run \div 2) : ~InClassAt(text, p + 2 * k, DotWord)}
    IN  IF InClassAt(text, p - 1, DotWord) \/ ks = {} THEN NoMatch
        ELSE p + 2 * (CHOOSE k \in ks : \A j \in ks : j <= k)

\* The word that starts at p, when p starts a word: "\b(w1|w2|...)\b" matches
\* at p exactly when that whole word is one of the alternatives.
WordAt(text, p) ==
    SubSeq(text, p + 1, RunEnd(text, p, WordChar))

atomWords ==
    { <<"t", "r", "u", "e">>, <<"f", "a", "l", "s", "e">> }

\* /\b(true|false)\b/g
atomRegex(text, p) ==
    IF /\ InClassAt(text, p, WordChar)
       /\ WordBoundary(text, p)
       /\ WordAt(text, p) \in atomWords
    THEN RunEnd(text, p, WordChar)
    ELSE NoMatch

\* /[-+\/*=<>:]+/g
operatorRegex(text, p) ==
    IF InClassAt(text, p, OperatorChar)
    THEN RunEnd(text, p, OperatorChar)
    ELSE NoMatch

keywordWords ==
    { <<"a", "l", "l">>,
      <<"a", "n", "d">>,
      <<"a", "n", "y">>,
      <<"a", "s", "c", "i", "i">>,
      <<"a", "t">>,
      <<"b", "a", "s", "e", "6", "4">>,
      <<"b", "a", "s", "e", "6", "4", "w", "i", "d", "e">>,
      <<"c", "o", "n", "d", "i", "t", "i", "o", "n">>,
      <<"c", "o", "n", "t", "a", "i", "n", "s">>,
      <<"e", "n", "d", "s", "w", "i", "t", "h">>,
      <<"e", "n", "t", "r", "y", "p", "o", "i", "n", "t">>,
      <<"f", "i", "l", "e", "s", "i", "z", "e">>,
      <<"f", "o", "r">>,
      <<"f", "u", "l", "l", "w", "o", "r", "d">>,
      <<"g", "l", "o", "b", "a", "l">>,
      <<"i", "c", "o", "n", "t", "a", "i", "n", "s">>,
      <<"i", "e", "n", "d", "s", "w", "i", "t", "h">>,
      <<"i", "m", "p", "o", "r", "t">>,
      <<"i", "n">>,
      <<"i", "n", "c", "l", "u", "d", "e">>,
      <<"i", "n", "t", "8">>,
      <<"i", "n", "t", "1", "6">>,
      <<"i", "n", "t", "3", "2">>,
      <<"i", "n", "t", "8", "b", "e">>,
      <<"i", "n", "t", "1", "6", "b", "e">>,
      <<"i", "n", "t", "3", "2", "b", "e">>,
      <<"i", "s", "t", "a", "r", "t", "s", "w", "i", "t", "h">>,
      <<"m", "a", "t", "c", "h", "e", "s">>,
      <<"m", "e", "t", "a">>,
      <<"n", "o", "c", "a", "s", "e">>,
      <<"n", "o", "t">>,
      <<"o", "f">>,
      <<"o", "r">>,
      <<"p", "r", "i", "v", "a", "t", "e">>,
      <<"r", "u", "l", "e">>,
      <<"s", "t", "a", "r", "t", "s", "w", "i", "t", "h">>,
      <<"s", "t", "r", "i", "n", "g", "s">>,
      <<"t", "h", "e", "m">>,
      <<"u", "i", "n", "t", "8">>,
      <<"u", "i", "n", "t", "1", "6">>,
      <<"u", "i", "n", "t", "3", "2">>,
      <<"u", "i", "n", "t", "8", "b", "e">>,
      <<"u", "i", "n", "t", "1", "6", "b", "e">>,
      <<"u", "i", "n", "t", "3", "2", "b", "e">>,
      <<"w", "i", "d", "e">>,
      <<"x", "o", "r">> }

\* /\b(all|and|...|xor)\b/g
keywordRegex(text, p) ==
    IF /\ InClassAt(text, p, WordChar)
       /\ WordBoundary(text, p)
       /\ WordAt(text, p) \in keywordWords
    THEN RunEnd(text, p, WordChar)
    ELSE NoMatch

(***************************************************************************)
(* exec in a while loop: the matches of one global expression, left to     *)
(* right, each search resuming at the end of the previous match.           *)
(***************************************************************************)
MatchAt(re, text, p) ==
    CASE re = "multiComment" -> multiCommentRegex(text, p)
      [] re = "singleComment" -> singleCommentRegex(text, p)
      [] re = "string" -> stringRegex(text, p)
      [] re = "variable" -> variableRegex(text, p)
      [] re = "meta" -> metaRegex(text, p)
      [] re = "hexNumber" -> hexNumberRegex(text, p)
      [] re = "decimal" -> decimalRegex(text, p)
      [] re = "hexPattern" -> hexPatternRegex(text, p)
      [] re = "atom" -> atomRegex(text, p)
      [] re = "operator" -> operatorRegex(text, p)
      [] re = "keyword" -> keywordRegex(text, p)

\* The least element of a non-empty set of offsets.
Least(S) == CHOOSE p \in S : \A q \in S : p <= q

\* One exec call: the search starts at lastIndex and stops at the first offset
\* where the expression matches; the next call starts at the end of that match.
\* hits are the offsets of the text where the expression matches.
RECURSIVE ExecFrom(_, _, _, _, _, _)
ExecFrom(re, text, hits, lastIndex, decoration, priority) ==
    With({p \in hits : p >= lastIndex}, LAMBDA ahead :
        IF ahead = {} THEN <<>>
        ELSE With(Least(ahead), LAMBDA p :
                With(MatchAt(re, text, p), LAMBDA e :
                    <<[start |-> p, end |-> e,
                       decoration |-> decoration, priority |-> priority]>>
                    \o ExecFrom(re, text, hits, e, decoration, priority))))

ExecAll(re, text, lastIndex, decoration, priority) ==
    With({p \in 0..(Len(text) - 1) : MatchAt(re, text, p) # NoMatch},
         LAMBDA hits :
            ExecFrom(re, text, hits, lastIndex, decoration, priority))

\* The rule-declaration loop pushes two matches per match of the expression.
RECURSIVE ExecRulesFrom(_, _, _)
ExecRulesFrom(text, hits, lastIndex) ==
    With({p \in hits : p >= lastIndex}, LAMBDA ahead :
        IF ahead = {} THEN <<>>
        ELSE With(Least(ahead), LAMBDA p :
                With(ruleDeclarationRegex(text, p), LAMBDA m :
                    <<[start |-> p, end |-> m[1],
                       decoration |-> keywordDecoration, priority |-> 3],
                      [start |-> m[2], end |-> m[3],
                       decoration |-> ruleNameDecoration, priority |-> 3]>>
                    \o ExecRulesFrom(text, hits, m[4]))))

ExecRules(text, lastIndex) ==
    With({p \in 0..(Len(text) - 1) : ruleDeclarationRegex(text, p) # <<>>},
         LAMBDA hits : ExecRulesFrom(text, hits, lastIndex))

multiComments(text) == ExecAll("multiComment", text, 0, commentDecoration, 1)
singleComments(text) == ExecAll("singleComment", text, 0, commentDecoration, 1)
strings(text) == ExecAll("string", text, 0, stringDecoration, 2)
ruleDeclarations(text) == ExecRules(text, 0)
variables(text) == ExecAll("variable", text, 0, variableDecoration, 3)
metas(text) == ExecAll("meta", text, 0, metaDecoration, 4)
hexNumbers(text) == ExecAll("hexNumber", text, 0, numberDecoration, 5)
decimals(text) == ExecAll("decimal", text, 0, numberDecoration, 5)
hexPatterns(text) == ExecAll("hexPattern", text, 0, numberDecoration, 5)
atoms(text) == ExecAll("atom", text, 0, atomDecoration, 6)
operators(text) == ExecAll("operator", text, 0, operatorDecoration, 7)
keywords(text) == ExecAll("keyword", text, 0, keywordDecoration, 8)

\* The matches array before the sort, in the order the loops push.
\* A variant of the pool in which the hex-byte scan runs before the decimal
\* scan.
matchesHexPatternsFirst(text) ==
    multiComments(text) \o singleComments(text) \o strings(text)
    \o ruleDeclarations(text) \o variables(text) \o metas(text)
    \o hexNumbers(text) \o hexPatterns(text) \o decimals(text)
    \o atoms(text) \o operators(text) \o keywords(text)

matches(text) ==
    multiComments(text) \o singleComments(text) \o strings(text)
    \o ruleDeclarations(text) \o variables(text) \o metas(text)
    \o hexNumbers(text) \o decimals(text) \o hexPatterns(text)
    \o atoms(text) \o operators(text) \o keywords(text)

(***************************************************************************)
(* matches.sort: Array.prototype.sort is stable.                           *)
(***************************************************************************)
\* A variant of the comparison that orders by priority alone.
compareByPriority(a, b) == a.priority - b.priority

\* A variant of the comparison with the priority difference reversed.
compareReversedPriority(a, b) ==
    IF a.start # b.start THEN a.start - b.start ELSE b.priority - a.priority

compare(a, b) ==
    IF a.start # b.start THEN a.start - b.start ELSE a.priority - b.priority

\* x put into the sorted s behind every element that does not compare greater
\* (in a sorted s these are a prefix): elements that compare equal keep the
\* order in which they were pushed.
InsertSorted(s, x) ==
    With(Cardinality({i \in 1..Len(s) : compare(s[i], x) <= 0}), LAMBDA k :
        SubSeq(s, 1, k) \o <<x>> \o SubSeq(s, k + 1, Len(s)))

RECURSIVE SortFrom(_, _, _)
SortFrom(ms, i, acc) ==
    IF i > Len(ms) THEN acc
    ELSE With(InsertSorted(acc, ms[i]), LAMBDA a :
            With(i + 1, LAMBDA next : SortFrom(ms, next, a)))

sortedMatches(text) ==
    With(matches(text), LAMBDA ms : SortFrom(ms, 1, <<>>))

(***************************************************************************)
(* Overlap resolution: a match is kept when it overlaps no match kept      *)
(* before it.                                                              *)
(***************************************************************************)
\* A variant of the overlap test that only looks at the end of the added match.
overlapsEndOnly(current, added) ==
    current.start < added.end /\ current.end > added.end

\* A variant of the overlap test in which ranges that touch overlap.
overlapsTouching(current, added) ==
    current.start <= added.end /\ current.end >= added.start

overlaps(current, added) ==
    current.start < added.end /\ current.end > added.start

shouldAdd(current, kept) ==
    \A i \in 1..Len(kept) : ~overlaps(current, kept[i])

\* The matches the loop keeps, with their priority.
RECURSIVE KeepFrom(_, _, _)
KeepFrom(ms, i, kept) ==
    IF i > Len(ms) THEN kept
    ELSE With(IF shouldAdd(ms[i], kept) THEN Append(kept, ms[i]) ELSE kept,
              LAMBDA k : With(i + 1, LAMBDA next : KeepFrom(ms, next, k)))

keptMatches(text) ==
    With(sortedMatches(text), LAMBDA ms : KeepFrom(ms, 1, <<>>))

\* filteredMatches: what is pushed for each kept match.
filteredMatches(text) ==
    With(keptMatches(text), LAMBDA kept :
        [i \in 1..Len(kept) |->
            [start |-> kept[i].start, end |-> kept[i].end,
             decoration |-> kept[i].decoration]])

(***************************************************************************)
(* RangeSetBuilder: add raises when a range starts before the last one     *)
(* added (all marks here have the same start side).                        *)
(***************************************************************************)
builderAdd(builder, m) ==
    IF builder.raised \/ m.start < builder.lastFrom
    THEN [builder EXCEPT !.raised = TRUE]
    ELSE [ranges |-> Append(builder.ranges, m), lastFrom |-> m.start,
          raised |-> FALSE]

RECURSIVE BuildFrom(_, _, _)
BuildFrom(fm, i, builder) ==
    IF i > Len(fm) THEN builder
    ELSE With(builderAdd(builder, fm[i]), LAMBDA b :
            With(i + 1, LAMBDA next : BuildFrom(fm, next, b)))

\* The whole of highlightYara: the ranges handed to the builder, and whether
\* an add raised.
highlightYara(text) ==
    With(filteredMatches(text), LAMBDA fm :
        BuildFrom(fm, 1, [ranges |-> <<>>, lastFrom |-> -1, raised |-> FALSE]))

(***************************************************************************)
(* The view plugin.                                                        *)
(***************************************************************************)
\* update(update): the decorations after an update of the view to text.
\* A variant of update that scans only when the viewport changed.
updateOnViewportOnly(old, docChanged, viewportChanged, text) ==
    IF viewportChanged THEN highlightYara(text)
    ELSE [ranges |-> old, lastFrom |-> -1, raised |-> FALSE]

update(old, docChanged, viewportChanged, text) ==
    IF docChanged \/ viewportChanged THEN highlightYara(text)
    ELSE [ranges |-> old, lastFrom |-> -1, raised |-> FALSE]

\* One update of the view: the new view state, and the plugin's reaction.
Dispatch(newDoc, newViewport, newFocus) ==
    \E r \in {update(decorations, newDoc # doc, newViewport # viewport, newDoc)} :
        /\ doc' = newDoc
        /\ viewport' = newViewport
        /\ hasFocus' = newFocus
        /\ decorations' = IF r.raised THEN decorations ELSE r.ranges
        /\ crashed' = (crashed \/ r.raised)

\* constructor(view)
Constructed(text) ==
    \E r \in {highlightYara(text)} :
        /\ doc = text
        /\ decorations = r.ranges
        /\ crashed = r.raised
        /\ viewport = "top"
        /\ hasFocus = FALSE

TypeChar(c) ==
    /\ Len(doc) < MaxDocLen
    /\ Dispatch(Append(doc, c), viewport, hasFocus)

Backspace ==
    /\ Len(doc) > 0
    /\ Dispatch(SubSeq(doc, 1, Len(doc) - 1), viewport, hasFocus)

Scroll ==
    \E v \in Viewports \ {viewport} : Dispatch(doc, v, hasFocus)

FocusChange ==
    Dispatch(doc, viewport, ~hasFocus)

(***************************************************************************)
(* Documents of the scenarios.                                             *)
(***************************************************************************)
RuleDoc ==
    <<"/", "/", " ", "h", "e", "l", "l", "o", "\n", "r", "u", "l", "e", " ",
      "f", "o", "o", " ", "{", " ", "c", "o", "n", "d", "i", "t", "i", "o",
      "n", ":", " ", "t", "r", "u", "e", " ", "}">>

UnterminatedDoc ==
    <<"\"", "u", "n", "t", "e", "r", "m", "i", "n", "a", "t", "e", "d", " ",
      "s", "t", "r", "i", "n", "g">>

VariablesDoc ==
    <<"$", "a", " ", "$", "b", "1", " ", "$">>

NumbersDoc ==
    <<"0", "x", "1", "A", " ", "1", "0", " ", "3", ".", "1", "4">>

NestedCommentDoc ==
    <<"/", "*", " ", "a", " ", "/", "/", " ", "b", " ", "*", "/", " ", "t",
      "r", "u", "e">>

ScenarioDocs ==
    {RuleDoc, UnterminatedDoc, VariablesDoc, NumbersDoc, NestedCommentDoc}

\* Every text of at most MaxLen characters of ScanChars.
ScanTexts == UNION {[1..n -> ScanChars] : n \in 0..MaxLen}

(***************************************************************************)
(* Specifications.                                                         *)
(***************************************************************************)
\* The editor: the plugin is attached to an empty document or to a scenario,
\* and the user types, deletes, scrolls and moves the focus.
Init == \E text \in {<<>>} \cup ScenarioDocs : Constructed(text)

Next ==
    \/ \E c \in EditChars : TypeChar(c)
    \/ Backspace
    \/ Scroll
    \/ FocusChange

Spec == Init /\ [][Next]_vars

\* The scan as a function of the text: the plugin is attached to any text of
\* the bounded set, and every viewport change scans it again.
ScanInit == \E text \in ScanTexts \cup ScenarioDocs : Constructed(text)

ScanNext == Scroll

ScanSpec == ScanInit /\ [][ScanNext]_vars

(***************************************************************************)
(* Notions the properties are stated with.                                 *)
(***************************************************************************)
Range(s) == {s[i] : i \in 1..Len(s)}

\* The span pushed for a match.
SpanOf(m) == [start |-> m.start, end |-> m.end, decoration |-> m.decoration]

\* Two ranges share a character.
Intersect(a, b) == a.start < b.end /\ b.start < a.end

\* C1: the span list handed to the builder is in ascending start order and
\* pairwise non-overlapping: each span ends at or before the start of the
\* next, and no two spans have the same (start, end).
C1_SortedNonOverlapping ==
    LET fm == filteredMatches(doc)
    IN  /\ \A i \in 1..(Len(fm) - 1) :
              /\ fm[i].start < fm[i + 1].start
              /\ fm[i].end <= fm[i + 1].start
        /\ \A i, j \in 1..Len(fm) :
              i # j => <<fm[i].start, fm[i].end>> # <<fm[j].start, fm[j].end>>

\* Two spans that touch were emitted and a match of the pool was dropped.
C1_Witness ==
    LET fm == filteredMatches(doc)
    IN  /\ Len(fm) >= 2
        /\ fm[1].end = fm[2].start
        /\ Len(matches(doc)) > Len(fm)

\* C2: the scan never raises (every builder.add is made in non-decreasing
\* start order), every emitted span satisfies 0 <= start < end <= length of
\* the text, and the empty text gives the empty list.
C2_TotalAndInBounds ==
    /\ ~crashed
    /\ \A i \in 1..Len(decorations) :
          /\ 0 <= decorations[i].start
          /\ decorations[i].start < decorations[i].end
          /\ decorations[i].end <= Len(doc)
    /\ \A i \in 1..(Len(decorations) - 1) :
          decorations[i].start <= decorations[i + 1].start
    /\ doc = <<>> => decorations = <<>>

\* A scan whose spans begin at offset 0 and reach the end of the text, with a
\* second scan of the same text done.
C2_Witness ==
    /\ Len(decorations) >= 2
    /\ decorations[1].start = 0
    /\ decorations[Len(decorations)].end = Len(doc)
    /\ viewport = "bottom"
    /\ ~crashed

\* C3 as stated: the rule scenario gives exactly a comment, the keyword rule,
\* the rule name, the keyword condition and the atom true.
C3_OriginalFiveSpans ==
    doc = RuleDoc =>
        decorations =
            << [start |-> 0, end |-> 8, decoration |-> commentDecoration],
               [start |-> 9, end |-> 13, decoration |-> keywordDecoration],
               [start |-> 14, end |-> 17, decoration |-> ruleNameDecoration],
               [start |-> 20, end |-> 29, decoration |-> keywordDecoration],
               [start |-> 31, end |-> 35, decoration |-> atomDecoration] >>

\* C3: the rule scenario gives exactly a comment over "// hello", the keyword
\* rule, the rule name foo, the keyword condition, an operator span over the
\* colon that follows condition, and the atom true; no number span.
C3_RuleScenario ==
    doc = RuleDoc =>
        /\ decorations =
            << [start |-> 0, end |-> 8, decoration |-> commentDecoration],
               [start |-> 9, end |-> 13, decoration |-> keywordDecoration],
               [start |-> 14, end |-> 17, decoration |-> ruleNameDecoration],
               [start |-> 20, end |-> 29, decoration |-> keywordDecoration],
               [start |-> 29, end |-> 30, decoration |-> operatorDecoration],
               [start |-> 31, end |-> 35, decoration |-> atomDecoration] >>
        /\ \A i \in 1..Len(decorations) :
              decorations[i].decoration # numberDecoration

\* The rule scenario was scanned and its colon is an operator span.
C3_Witness ==
    /\ doc = RuleDoc
    /\ Len(decorations) = 6
    /\ decorations[5].decoration = operatorDecoration

\* The offsets q >= p + 2 at which "*/" stands.
BlockClosers(text, p) ==
    {q \in (p + 2)..(Len(text) - 2) : text[q + 1] = "*" /\ text[q + 2] = "/"}

\* The offsets at which the scan tries a new match of a global expression:
\* those not inside a match it found.
Unclaimed(ms, p) == \A i \in 1..Len(ms) : ~(ms[i].start < p /\ p < ms[i].end)

\* C4: every "/*" the block-comment scan comes to gives a comment match that
\* ends after the nearest following "*/", or at the end of the text when no
\* "*/" follows.
C4_BlockCommentToEndOfText ==
    LET ms == multiComments(doc)
    IN  \A p \in 0..(Len(doc) - 2) :
          (StartsWith(doc, p, <<"/", "*">>) /\ Unclaimed(ms, p)) =>
             \E i \in 1..Len(ms) :
                /\ ms[i].start = p
                /\ ms[i].decoration = commentDecoration
                /\ ms[i].end =
                     IF BlockClosers(doc, p) = {} THEN Len(doc)
                     ELSE 2 + CHOOSE q \in BlockClosers(doc, p) :
                                 \A r \in BlockClosers(doc, p) : q <= r

\* A closing quote stands between q and the end of q's line (a backslash
\* escapes the character after it).
RECURSIVE ClosedOnLine(_, _)
ClosedOnLine(text, q) ==
    IF q >= Len(text) \/ text[q + 1] \in LineTerminator THEN FALSE
    ELSE IF text[q + 1] = "\"" THEN TRUE
    ELSE IF text[q + 1] = "\\" THEN ClosedOnLine(text, q + 2)
    ELSE ClosedOnLine(text, q + 1)

\* The end of the line of offset q.
EndOfLine(text, q) ==
    IF \E r \in q..(Len(text) - 1) : text[r + 1] \in LineTerminator
    THEN CHOOSE r \in q..(Len(text) - 1) :
            /\ text[r + 1] \in LineTerminator
            /\ \A k \in q..(r - 1) : text[k + 1] \notin LineTerminator
    ELSE Len(text)

\* C5: every opening quote with no closing quote on its line gives a string
\* match from the quote to the end of that line (or of the text), which
\* therefore never runs across a line break.
C5_UnclosedStringStopsAtLineEnd ==
    LET ms == strings(doc)
    IN  \A p \in 0..(Len(doc) - 1) :
          (doc[p + 1] = "\"" /\ Unclaimed(ms, p) /\ ~ClosedOnLine(doc, p + 1)) =>
             \E i \in 1..Len(ms) :
                /\ ms[i].start = p
                /\ ms[i].end = EndOfLine(doc, p + 1)

\* C6: of two matches of the pool with the same start and different priority
\* numbers, the one with the higher number is never kept, whatever their
\* ends; with identical ranges the one kept, when either is, is the one with
\* the lower number.
C6_PriorityTieBreak ==
    LET ms == matches(doc)
        kept == Range(keptMatches(doc))
    IN  \A i, j \in 1..Len(ms) :
          (ms[i].start = ms[j].start /\ ms[i].priority < ms[j].priority) =>
             /\ ms[j] \notin kept
             /\ (ms[i].end = ms[j].end /\ SpanOf(ms[i]) \in Range(filteredMatches(doc)))
                   => ms[i] \in kept

\* Two matches start together with different priorities and different ends,
\* and the one with the lower number is kept.
C6_Witness ==
    LET ms == matches(doc)
        kept == Range(keptMatches(doc))
    IN  \E i, j \in 1..Len(ms) :
          /\ ms[i].start = ms[j].start
          /\ ms[i].priority < ms[j].priority
          /\ ms[i].end # ms[j].end
          /\ ms[i] \in kept

C8_CommentsShadowTokens ==
    LET cs == multiComments(doc) \o singleComments(doc)
        ss == strings(doc)
        fm == Range(filteredMatches(doc))
    IN  \A i \in 1..Len(cs) :
          (/\ \A j \in 1..Len(ss) : ~Intersect(cs[i], ss[j])
           /\ \A j \in 1..Len(cs) : j # i => ~Intersect(cs[i], cs[j]))
          => /\ SpanOf(cs[i]) \in fm
             /\ \A s \in fm :
                   (cs[i].start <= s.start /\ s.end <= cs[i].end)
                      => s.decoration = commentDecoration

\* C9: the published decorations are always the scan of the current document,
\* and an update that changes neither the document nor the viewport leaves
\* them as they are.
C9_DecorationsFollowDocument ==
    /\ [](decorations = highlightYara(doc).ranges /\ ~crashed)
    /\ [][(doc' = doc /\ viewport' = viewport) => decorations' = decorations]_vars

\* The user typed a document with spans, scrolled and moved the focus.
C9_Witness ==
    /\ Len(doc) = MaxDocLen
    /\ Len(decorations) >= 2
    /\ viewport = "bottom"
    /\ hasFocus

\* The number spans emitted at offset p.
NumbersAt(text, p) ==
    {s \in Range(filteredMatches(text)) :
        s.start = p /\ s.decoration = numberDecoration}

NumbersScenario ==
    doc = NumbersDoc =>
        decorations =
            << [start |-> 0, end |-> 4, decoration |-> numberDecoration],
               [start |-> 5, end |-> 7, decoration |-> numberDecoration],
               [start |-> 8, end |-> 12, decoration |-> numberDecoration] >>

\* C10 as stated: where a decimal match and a hex-byte match start together,
\* exactly one number span is emitted there and it has the decimal's range.
C10_OriginalExactlyOne ==
    /\ \A d \in Range(decimals(doc)) : \A h \in Range(hexPatterns(doc)) :
          d.start = h.start => NumbersAt(doc, d.start) = {SpanOf(d)}
    /\ NumbersScenario

\* C10: where a decimal match and a hex-byte match start together, the
\* decimal comes first in the sorted pool: at most one number span is emitted
\* there, it has the decimal's range even when the hex-byte match is longer,
\* and it is emitted exactly when no span kept from an earlier start covers
\* the offset; and "0x1A 10 3.14" gives the three number spans.
C10_DecimalBeforeHexPattern ==
    /\ \A d \in Range(decimals(doc)) : \A h \in Range(hexPatterns(doc)) :
          d.start = h.start =>
             /\ NumbersAt(doc, d.start) \subseteq {SpanOf(d)}
             /\ (NumbersAt(doc, d.start) = {}) <=>
                   \E k \in Range(keptMatches(doc)) :
                      k.start < d.start /\ d.start < k.end
    /\ NumbersScenario

\* A decimal match and a longer hex-byte match start together and the span
\* emitted has the decimal's range.
C10_Witness ==
    \E d \in Range(decimals(doc)) : \E h \in Range(hexPatterns(doc)) :
       /\ d.start = h.start
       /\ h.end > d.end
       /\ NumbersAt(doc, d.start) = {SpanOf(d)}

====
